---- MODULE Spec2Model ----
(***************************************************************************)
(* CampaignManager (src/campaign_manager.py) and the AdCreator factory     *)
(* (src/ad_creator.py) as a state machine.  One action per public method   *)
(* of CampaignManager; every method is one atomic step (the code is        *)
(* synchronous and single-threaded).                                       *)
(*                                                                         *)
(* Python values:                                                          *)
(*   - a str built by an f-string is the tuple of its pieces, so           *)
(*     f"{platform}_camp_{n}" is <<platform, "_camp_", n>>;                *)
(*   - a dict is the set of its <<key, value>> pairs, wrapped with its     *)
(*     type where the code tests the type (config);                        *)
(*   - an exception is [type, msg];                                        *)
(*   - datetime.now() reads a logical clock that ticks on every read.      *)
(* The collaborators that are not part of the two source files             *)
(* (AudienceTargeter, BidOptimizer, PerformanceAnalyzer, the platform      *)
(* strategies) are the environment: each of their calls either returns or  *)
(* raises, chosen by the input failAt.                                     *)
(***************************************************************************)
EXTENDS Integers, Sequences, FiniteSets, TLC

\* Bounds: the successful create_campaign calls of one behaviour, and the
\* campaigns held in the table at once.
MaxCreates == 3

MaxLive == 2

VARIABLES
    campaigns,     \* self.campaigns: campaign id -> campaign record
    last_updated,  \* self.last_updated
    clock,         \* the logical time the next datetime.now() returns
    issued,        \* history: the ids create_campaign has returned, in order
    stopped,       \* history: the ids stop_campaign has deleted
    last           \* what the caller saw of the latest call: the method, the
                   \* exception it raised (NoError if none), the value returned

vars == <<campaigns, last_updated, clock, issued, stopped, last>>

----------------------------------------------------------------------------
\* Python values

PyDict(items) == [type |-> "dict", items |-> items]

PyStr(s) == [type |-> "str", items |-> {<<"value", s>>}]

HasKey(d, k) == \E kv \in d.items : kv[1] = k

NoError == [type |-> "none", msg |-> <<>>]

ValueError(msg) == [type |-> "ValueError", msg |-> msg]

KeyError(key) == [type |-> "KeyError", msg |-> <<key>>]

\* An exception raised inside a collaborator call.
DownstreamError(call) == [type |-> "Exception", msg |-> <<call, " failed">>]

None == "None"

Info(msg) == [level |-> "info", msg |-> msg]

Error(msg) == [level |-> "error", msg |-> msg]

----------------------------------------------------------------------------
\* The inputs.  Every handler is examined on the wide sets at every reachable
\* state; the behaviours are built from the calls of the Run sets, which hold
\* one input for each way a call can end.

Platforms == {"facebook", "instagram", "twitter", "google_ads"}

PlatformInputs == Platforms \cup {"tiktok", ""}

RunPlatforms == {"facebook", "twitter", "tiktok"}

OpsPlatforms == {"facebook", "tiktok"}

FullConfig ==
    PyDict({<<"text_template", "Buy now">>, <<"targeting", "adults">>,
            <<"call_to_action", "Shop">>})

ConfigInputs ==
    { FullConfig,
      PyDict({<<"targeting", "teens">>}),
      PyDict({<<"text_template", "Buy now">>}),
      PyStr("Buy now") }

RunConfigs == {FullConfig, PyStr("Buy now")}

DirectionInputs == {"up", "down", "sideways", ""}

RunDirections == {"up", "down", "sideways"}

MetricsInputs == { {}, {<<"clicks", 1>>}, {<<"clicks", 2>>} }

RunMetrics == { {<<"clicks", 1>>} }

\* The collaborator call of create_campaign that raises, if any.
CreateFailInputs == {"none", "create_ad", "target_audience", "set_bids"}

RunCreateFails == {"none", "set_bids"}

\* The collaborator call of optimize_campaign that raises, if any.
OptimizeFailInputs == {"none", "analyze_campaign", "adjust_bids"}

RunOptimizeFails == {"none", "adjust_bids"}

\* The strings a campaign id argument is tried with: every id the platforms
\* can be issued within the bounds, and strings create_campaign never returns.
IdInputs ==
    {<<p, "_camp_", n>> : p \in Platforms, n \in 0..(MaxCreates + 1)}
        \cup {<<"no such campaign">>, <<"">>}

----------------------------------------------------------------------------
\* AdCreator.get_instance

Creator(cls) == [raised |-> FALSE, error |-> NoError, cls |-> cls]

\* Mutant: the else branch falls back to a default creator instead of raising.
get_instance_Fallback(platform) ==
    IF platform = "instagram" THEN Creator("InstagramAdCreator")
    ELSE IF platform = "twitter" THEN Creator("TwitterAdCreator")
    ELSE IF platform = "google_ads" THEN Creator("GoogleAdsCreator")
    ELSE Creator("FacebookAdCreator")

get_instance(platform) ==
    IF platform = "facebook" THEN Creator("FacebookAdCreator")
    ELSE IF platform = "instagram" THEN Creator("InstagramAdCreator")
    ELSE IF platform = "twitter" THEN Creator("TwitterAdCreator")
    ELSE IF platform = "google_ads" THEN Creator("GoogleAdsCreator")
    ELSE [raised |-> TRUE,
          error |-> ValueError(<<"Unsupported platform: ", platform>>),
          cls |-> None]

----------------------------------------------------------------------------
\* What a method hands back: the table it leaves, the number of datetime.now()
\* reads it made, the exception it raised (NoError when it returned), its
\* return value, the collaborator calls it made and the log lines it wrote.

Outcome(table, ticks, error, ret, calls, log) ==
    [campaigns |-> table, ticks |-> ticks, error |-> error, ret |-> ret,
     calls |-> calls, log |-> log]

----------------------------------------------------------------------------
\* CampaignManager.create_campaign

\* Mutant: the id is numbered by the table size, without the + 1.
CampaignId_Len(platform, table) ==
    <<platform, "_camp_", Cardinality(DOMAIN table)>>

CampaignId(platform, table) ==
    <<platform, "_camp_", Cardinality(DOMAIN table) + 1>>

\* Mutant: the record starts as pending instead of running.
NewCampaign_Pending(campaign_id, platform, config, now) ==
    [id |-> campaign_id,
     platform |-> platform,
     config |-> config,
     status |-> "pending",
     start_time |-> now,
     performance |-> {},
     errors |-> <<>>]

\* Mutant: the id field holds the platform instead of the campaign id.
NewCampaign_IdIsPlatform(campaign_id, platform, config, now) ==
    [id |-> <<platform>>,
     platform |-> platform,
     config |-> config,
     status |-> "running",
     start_time |-> now,
     performance |-> {},
     errors |-> <<>>]

NewCampaign(campaign_id, platform, config, now) ==
    [id |-> campaign_id,
     platform |-> platform,
     config |-> config,
     status |-> "running",
     start_time |-> now,
     performance |-> {},
     errors |-> <<>>]

Put(table, key, value) ==
    [k \in DOMAIN table \cup {key} |-> IF k = key THEN value ELSE table[k]]

\* Mutant: the handler logs the exception and does not re-raise it.
create_campaign_except_Swallow(table, e, calls) ==
    Outcome(table, 0, NoError, None, calls,
            <<Error(<<"Failed to create campaign: ", e.msg>>)>>)

create_campaign_except(table, e, calls) ==
    Outcome(table, 0, e, None, calls,
            <<Error(<<"Failed to create campaign: ", e.msg>>)>>)

create_campaign(table, now, platform, config, failAt) ==
    LET inst == get_instance(platform)
        c1 == <<"AdCreator.get_instance">>
        c2 == c1 \o <<inst.cls, "AudienceTargeter.get_instance",
                      "BidOptimizer.get_instance", "create_ad">>
        c3 == c2 \o <<"target_audience">>
        c4 == c3 \o <<"set_bids">>
        campaign_id == CampaignId(platform, table)
    IN  IF config.type # "dict" THEN
            create_campaign_except(table,
                ValueError(<<"Campaign configuration must be a dictionary.">>),
                <<>>)
        ELSE IF inst.raised THEN
            create_campaign_except(table, inst.error, c1)
        ELSE IF failAt = "create_ad" THEN
            create_campaign_except(table, DownstreamError(failAt), c2)
        ELSE IF ~HasKey(config, "targeting") THEN
            create_campaign_except(table, KeyError("targeting"), c2)
        ELSE IF failAt = "target_audience" THEN
            create_campaign_except(table, DownstreamError(failAt), c3)
        ELSE IF failAt = "set_bids" THEN
            create_campaign_except(table, DownstreamError(failAt), c4)
        ELSE
            Outcome(Put(table, campaign_id,
                        NewCampaign(campaign_id, platform, config, now)),
                    1, NoError, campaign_id, c4,
                    <<Info(<<"Campaign ", campaign_id, " created on ",
                             platform, ".">>)>>)

----------------------------------------------------------------------------
\* CampaignManager.optimize_campaign

NotFound(campaign_id) ==
    ValueError(<<"Campaign ", campaign_id, " does not exist.">>)

optimize_campaign_except(table, campaign_id, e, calls) ==
    Outcome(table, 0, e, None, calls,
            <<Error(<<"Optimization failed for campaign ", campaign_id, ": ",
                      e.msg>>)>>)

\* Mutant: storing the metrics also resets the status.
StorePerformance_Status(campaign, metrics) ==
    [campaign EXCEPT !.performance = metrics, !.status = "running"]

StorePerformance(campaign, metrics) ==
    [campaign EXCEPT !.performance = metrics]

\* Mutant: the metrics are stored before adjust_bids is called, so they stay
\* stored when adjust_bids raises.
optimize_campaign_StoreFirst(table, campaign_id, metrics, failAt) ==
    LET c1 == <<"PerformanceAnalyzer.get_instance", "analyze_campaign">>
        c2 == c1 \o <<"BidOptimizer.get_instance", "adjust_bids">>
        stored == [table EXCEPT ![campaign_id] =
                       StorePerformance(table[campaign_id], metrics)]
    IN  IF campaign_id \notin DOMAIN table THEN
            optimize_campaign_except(table, campaign_id,
                                     NotFound(campaign_id), <<>>)
        ELSE IF failAt = "analyze_campaign" THEN
            optimize_campaign_except(table, campaign_id,
                                     DownstreamError(failAt), c1)
        ELSE IF failAt = "adjust_bids" THEN
            optimize_campaign_except(stored, campaign_id,
                                     DownstreamError(failAt), c2)
        ELSE
            Outcome(stored, 0, NoError, None, c2,
                    <<Info(<<"Campaign ", campaign_id,
                             " optimized. New performance metrics: ",
                             metrics, ".">>)>>)

optimize_campaign(table, campaign_id, metrics, failAt) ==
    LET c1 == <<"PerformanceAnalyzer.get_instance", "analyze_campaign">>
        c2 == c1 \o <<"BidOptimizer.get_instance", "adjust_bids">>
    IN  IF campaign_id \notin DOMAIN table THEN
            optimize_campaign_except(table, campaign_id,
                                     NotFound(campaign_id), <<>>)
        ELSE IF failAt = "analyze_campaign" THEN
            optimize_campaign_except(table, campaign_id,
                                     DownstreamError(failAt), c1)
        ELSE IF failAt = "adjust_bids" THEN
            optimize_campaign_except(table, campaign_id,
                                     DownstreamError(failAt), c2)
        ELSE
            Outcome([table EXCEPT ![campaign_id] =
                         StorePerformance(table[campaign_id], metrics)],
                    0, NoError, None, c2,
                    <<Info(<<"Campaign ", campaign_id,
                             " optimized. New performance metrics: ",
                             metrics, ".">>)>>)

----------------------------------------------------------------------------
\* CampaignManager.scale_campaign

scale_campaign_except(table, campaign_id, e) ==
    Outcome(table, 0, e, None, <<>>,
            <<Error(<<"Scaling failed for campaign ", campaign_id, ": ",
                      e.msg>>)>>)

\* Mutant: every direction other than 'up' scales down.
NewStatus_ElseDown(direction) ==
    IF direction = "up" THEN
        [raised |-> FALSE, error |-> NoError, status |-> "scaling_up"]
    ELSE
        [raised |-> FALSE, error |-> NoError, status |-> "scaling_down"]

\* Lines 86-91: the status a direction selects, or the ValueError.
NewStatus(direction) ==
    IF direction = "up" THEN
        [raised |-> FALSE, error |-> NoError, status |-> "scaling_up"]
    ELSE IF direction = "down" THEN
        [raised |-> FALSE, error |-> NoError, status |-> "scaling_down"]
    ELSE
        [raised |-> TRUE,
         error |-> ValueError(<<"Direction must be either 'up' or 'down'.">>),
         status |-> None]

\* Mutant: the direction is validated before the id is looked up.
scale_campaign_DirectionFirst(table, campaign_id, direction) ==
    LET new == NewStatus(direction)
    IN  IF new.raised THEN
            scale_campaign_except(table, campaign_id, new.error)
        ELSE IF campaign_id \notin DOMAIN table THEN
            scale_campaign_except(table, campaign_id, NotFound(campaign_id))
        ELSE
            Outcome([table EXCEPT ![campaign_id].status = new.status],
                    0, NoError, None, <<>>,
                    <<Info(<<"Campaign ", campaign_id, " scaling ",
                             direction, ". New status: ", new.status,
                             ".">>)>>)

\* Mutant: scaling also has the bid optimizer adjust the bids and clears the
\* stored performance.
scale_campaign_Adjust(table, campaign_id, direction) ==
    IF campaign_id \notin DOMAIN table THEN
        scale_campaign_except(table, campaign_id, NotFound(campaign_id))
    ELSE
        LET new == NewStatus(direction)
        IN  IF new.raised THEN
                scale_campaign_except(table, campaign_id, new.error)
            ELSE
                Outcome([table EXCEPT ![campaign_id].status = new.status,
                                      ![campaign_id].performance = {}],
                        0, NoError, None,
                        <<"BidOptimizer.get_instance", "adjust_bids">>,
                        <<Info(<<"Campaign ", campaign_id, " scaling ",
                                 direction, ". New status: ", new.status,
                                 ".">>)>>)

scale_campaign(table, campaign_id, direction) ==
    IF campaign_id \notin DOMAIN table THEN
        scale_campaign_except(table, campaign_id, NotFound(campaign_id))
    ELSE
        LET new == NewStatus(direction)
        IN  IF new.raised THEN
                scale_campaign_except(table, campaign_id, new.error)
            ELSE
                Outcome([table EXCEPT ![campaign_id].status = new.status],
                        0, NoError, None, <<>>,
                        <<Info(<<"Campaign ", campaign_id, " scaling ",
                                 direction, ". New status: ", new.status,
                                 ".">>)>>)

----------------------------------------------------------------------------
\* CampaignManager.stop_campaign

stop_campaign_except(table, campaign_id, e) ==
    Outcome(table, 0, e, None, <<>>,
            <<Error(<<"Failed to stop campaign ", campaign_id, ": ",
                      e.msg>>)>>)

Delete(table, key) == [k \in DOMAIN table \ {key} |-> table[k]]

\* Mutant: a soft stop, the record is kept with a status flag.
stop_campaign_Soft(table, campaign_id) ==
    IF campaign_id \notin DOMAIN table THEN
        stop_campaign_except(table, campaign_id, NotFound(campaign_id))
    ELSE
        Outcome([table EXCEPT ![campaign_id].status = "stopped"],
                0, NoError, None, <<>>,
                <<Info(<<"Campaign ", campaign_id,
                         " stopped successfully.">>)>>)

stop_campaign(table, campaign_id) ==
    IF campaign_id \notin DOMAIN table THEN
        stop_campaign_except(table, campaign_id, NotFound(campaign_id))
    ELSE
        Outcome(Delete(table, campaign_id), 0, NoError, None, <<>>,
                <<Info(<<"Campaign ", campaign_id,
                         " stopped successfully.">>)>>)

----------------------------------------------------------------------------
\* CampaignManager.get_campaign_status

\* Mutant: the lookup takes the record out of the table (a pop).
get_campaign_status_Pop(table, campaign_id) ==
    IF campaign_id \notin DOMAIN table THEN
        Outcome(table, 0, NotFound(campaign_id), None, <<>>, <<>>)
    ELSE
        Outcome(Delete(table, campaign_id), 0, NoError, table[campaign_id],
                <<>>, <<>>)

get_campaign_status(table, campaign_id) ==
    IF campaign_id \notin DOMAIN table THEN
        Outcome(table, 0, NotFound(campaign_id), None, <<>>, <<>>)
    ELSE
        Outcome(table, 0, NoError, table[campaign_id], <<>>, <<>>)

----------------------------------------------------------------------------
\* State machine

Call(op, out) == [op |-> op, error |-> out.error, ret |-> out.ret]

\* The ids the calls of a behaviour are made with: the live ones and one that
\* was never issued (LiveIds), and with them the stopped ones (KnownIds).
NeverIssued == <<"no such campaign">>

LiveIds == DOMAIN campaigns \cup {NeverIssued}

KnownIds == LiveIds \cup stopped

Init ==
    /\ campaigns = <<>>
    /\ last_updated = 0
    /\ clock = 1
    /\ issued = <<>>
    /\ stopped = {}
    /\ last = [op |-> "__init__", error |-> NoError, ret |-> None]

CreateCampaign(platforms) ==
    /\ Len(issued) < MaxCreates
    /\ Cardinality(DOMAIN campaigns) < MaxLive
    /\ \E platform \in platforms, config \in RunConfigs,
          failAt \in RunCreateFails :
          LET out == create_campaign(campaigns, clock, platform, config, failAt)
          IN  /\ campaigns' = out.campaigns
              /\ clock' = clock + out.ticks
              /\ issued' = IF out.error = NoError
                           THEN Append(issued, out.ret) ELSE issued
              /\ last' = Call("create_campaign", out)
              /\ UNCHANGED <<last_updated, stopped>>

OptimizeCampaign(ids) ==
    \E campaign_id \in ids, metrics \in RunMetrics,
       failAt \in RunOptimizeFails :
        LET out == optimize_campaign(campaigns, campaign_id, metrics, failAt)
        IN  /\ campaigns' = out.campaigns
            /\ last' = Call("optimize_campaign", out)
            /\ UNCHANGED <<last_updated, clock, issued, stopped>>

ScaleCampaign(ids) ==
    \E campaign_id \in ids, direction \in RunDirections :
        LET out == scale_campaign(campaigns, campaign_id, direction)
        IN  /\ campaigns' = out.campaigns
            /\ last' = Call("scale_campaign", out)
            /\ UNCHANGED <<last_updated, clock, issued, stopped>>

StopCampaign(ids) ==
    \E campaign_id \in ids :
        LET out == stop_campaign(campaigns, campaign_id)
        IN  /\ campaigns' = out.campaigns
            /\ stopped' = IF out.error = NoError
                          THEN stopped \cup {campaign_id} ELSE stopped
            /\ last' = Call("stop_campaign", out)
            /\ UNCHANGED <<last_updated, clock, issued>>

GetCampaignStatus(ids) ==
    \E campaign_id \in ids :
        LET out == get_campaign_status(campaigns, campaign_id)
        IN  /\ campaigns' = out.campaigns
            /\ last' = Call("get_campaign_status", out)
            /\ UNCHANGED <<last_updated, clock, issued, stopped>>

\* The campaign lifecycle over two platforms.
Next ==
    \/ CreateCampaign(RunPlatforms)
    \/ OptimizeCampaign(LiveIds)
    \/ ScaleCampaign(LiveIds)
    \/ StopCampaign(LiveIds)
    \/ GetCampaignStatus(LiveIds)

Spec == Init /\ [][Next]_vars

\* The same manager driven on one platform, its methods also called with the
\* ids of stopped campaigns; the claims about a single call are checked here,
\* on the wide input sets, at every state it reaches.
NextOps ==
    \/ CreateCampaign(OpsPlatforms)
    \/ OptimizeCampaign(KnownIds)
    \/ ScaleCampaign(KnownIds)
    \/ StopCampaign(KnownIds)
    \/ GetCampaignStatus(KnownIds)

SpecOps == Init /\ [][NextOps]_vars

----------------------------------------------------------------------------
\* Properties

Range(seq) == {seq[i] : i \in 1..Len(seq)}

BadDirection == ValueError(<<"Direction must be either 'up' or 'down'.">>)

Unsupported(platform) == ValueError(<<"Unsupported platform: ", platform>>)

\* C1: no two successful create_campaign calls of one manager return the
\* same id, also after campaigns have been stopped.
C1_ReturnedIdsUnique ==
    \A i, j \in 1..Len(issued) : i # j => issued[i] # issued[j]

\* C2: once stop_campaign(id) has succeeded, id never is a key of the table
\* again, and optimize, scale, stop and status on it fail with not-found.
C2_DeletionTerminal ==
    \A id \in stopped :
        /\ id \notin DOMAIN campaigns
        /\ get_campaign_status(campaigns, id).error = NotFound(id)
        /\ stop_campaign(campaigns, id).error = NotFound(id)
        /\ \A d \in DirectionInputs :
               scale_campaign(campaigns, id, d).error = NotFound(id)
        /\ \A m \in MetricsInputs, f \in OptimizeFailInputs :
               optimize_campaign(campaigns, id, m, f).error = NotFound(id)

\* C3: with an id that is not a key of the table, optimize, scale (whatever
\* the direction), stop and status fail with not-found and leave the table as
\* it was.
C3_AbsentIdNotFound ==
    \A id \in (IdInputs \cup stopped) \ DOMAIN campaigns :
        /\ \A m \in MetricsInputs, f \in OptimizeFailInputs :
               LET out == optimize_campaign(campaigns, id, m, f)
               IN  out.error = NotFound(id) /\ out.campaigns = campaigns
        /\ \A d \in DirectionInputs :
               LET out == scale_campaign(campaigns, id, d)
               IN  out.error = NotFound(id) /\ out.campaigns = campaigns
        /\ LET out == stop_campaign(campaigns, id)
           IN  out.error = NotFound(id) /\ out.campaigns = campaigns
        /\ LET out == get_campaign_status(campaigns, id)
           IN  out.error = NotFound(id) /\ out.campaigns = campaigns

\* A scale_campaign with a never issued id has failed with not-found while
\* campaigns are live.
C3_Witness ==
    /\ DOMAIN campaigns # {}
    /\ last.op = "scale_campaign"
    /\ last.error = NotFound(NeverIssued)

\* C4: right after a successful create_campaign(platform, config), status on
\* the returned id succeeds with a record that has this id, this platform and
\* config, status running, and empty performance and errors.
C4_CreatedRecord ==
    /\ \A platform \in PlatformInputs, config \in ConfigInputs,
          failAt \in CreateFailInputs :
           LET out == create_campaign(campaigns, clock, platform, config,
                                      failAt)
               st == get_campaign_status(out.campaigns, out.ret)
           IN  out.error = NoError =>
                   /\ st.error = NoError
                   /\ st.ret.id = out.ret
                   /\ st.ret.platform = platform
                   /\ st.ret.config = config
                   /\ st.ret.status = "running"
                   /\ st.ret.performance = {}
                   /\ st.ret.errors = <<>>
    /\ (last.op = "create_campaign" /\ last.error = NoError) =>
           LET st == get_campaign_status(campaigns, last.ret)
           IN  /\ st.error = NoError
               /\ st.ret.id = last.ret
               /\ st.ret.status = "running"
               /\ st.ret.performance = {}
               /\ st.ret.errors = <<>>

\* A create_campaign has just returned the id of a record of the table.
C4_Witness ==
    /\ last.op = "create_campaign"
    /\ last.error = NoError
    /\ last.ret \in DOMAIN campaigns
    /\ campaigns[last.ret].id = last.ret

\* C5: create_campaign fails when the config is no dict, the platform is
\* unsupported, the config has no targeting entry, or create_ad,
\* target_audience or set_bids raises; whenever it fails the exception
\* reaches the caller and the table is what it was before the call.
C5_CreateAllOrNothing ==
    \A platform \in PlatformInputs, config \in ConfigInputs,
       failAt \in CreateFailInputs :
        LET out == create_campaign(campaigns, clock, platform, config, failAt)
            cause == \/ config.type # "dict"
                     \/ platform \notin Platforms
                     \/ ~HasKey(config, "targeting")
                     \/ failAt # "none"
        IN  /\ cause => out.error # NoError
            /\ out.error # NoError =>
                   out.campaigns = campaigns /\ out.ret = None
            /\ out.campaigns # campaigns => ~cause

\* A create_campaign has failed on a manager that holds campaigns.
C5_Witness ==
    /\ last.op = "create_campaign"
    /\ last.error = DownstreamError("set_bids")
    /\ DOMAIN campaigns # {}

\* C6: for a campaign of the table and a direction other than 'up' and
\* 'down', scale_campaign fails with the invalid-direction error and the
\* table, the campaign's status included, is unchanged.
C6_BadDirectionRejected ==
    \A id \in DOMAIN campaigns, d \in DirectionInputs \ {"up", "down"} :
        LET out == scale_campaign(campaigns, id, d)
        IN  /\ out.error = BadDirection
            /\ out.campaigns = campaigns
            /\ out.campaigns[id].status = campaigns[id].status

\* A scale_campaign of a live campaign has failed on its direction, and a
\* campaign scaled before still has its status.
C6_Witness ==
    /\ last.op = "scale_campaign"
    /\ last.error = BadDirection
    /\ \E id \in DOMAIN campaigns : campaigns[id].status = "scaling_up"

\* C7: while no campaign has been stopped, the n-th successful
\* create_campaign, on platform p, returned p_camp_n, the returned ids are
\* distinct, and the table holds all n campaigns.
C7_SequentialIds ==
    stopped = {} =>
        /\ \A n \in 1..Len(issued) :
               /\ issued[n] \in DOMAIN campaigns
               /\ issued[n] =
                      <<campaigns[issued[n]].platform, "_camp_", n>>
        /\ \A i, j \in 1..Len(issued) : i # j => issued[i] # issued[j]
        /\ DOMAIN campaigns = Range(issued)
        /\ Cardinality(DOMAIN campaigns) = Len(issued)
        /\ \A platform \in Platforms, config \in ConfigInputs :
               LET out == create_campaign(campaigns, clock, platform, config,
                                          "none")
               IN  out.error = NoError =>
                       /\ out.ret = <<platform, "_camp_", Len(issued) + 1>>
                       /\ DOMAIN out.campaigns = Range(issued) \cup {out.ret}

\* Two campaigns were created with none stopped: facebook_camp_1, then
\* twitter_camp_2.
C7_Witness ==
    /\ stopped = {}
    /\ issued = << <<"facebook", "_camp_", 1>>, <<"twitter", "_camp_", 2>> >>
    /\ Cardinality(DOMAIN campaigns) = 2

\* C8: for a platform outside the four supported ones, get_instance raises
\* the ValueError that names the platform and constructs no creator, and
\* create_campaign fails having called no collaborator.
C8_UnsupportedPlatform ==
    \A platform \in PlatformInputs \ Platforms :
        /\ get_instance(platform).raised
        /\ get_instance(platform).error = Unsupported(platform)
        /\ get_instance(platform).cls = None
        /\ \A config \in ConfigInputs, failAt \in CreateFailInputs :
               LET out == create_campaign(campaigns, clock, platform, config,
                                          failAt)
               IN  /\ out.error # NoError
                   /\ config.type = "dict" =>
                          /\ out.error = Unsupported(platform)
                          /\ out.calls = <<"AdCreator.get_instance">>
                   /\ config.type # "dict" => out.calls = <<>>
                   /\ out.campaigns = campaigns

\* A create_campaign on tiktok has failed with the error naming tiktok.
C8_Witness ==
    /\ last.op = "create_campaign"
    /\ last.error = Unsupported("tiktok")

StatusIn(table, id) ==
    IF id \in DOMAIN table THEN table[id].status ELSE "removed"

Scaling == {"scaling_up", "scaling_down"}

C10_OptimizeFrame ==
    \A id \in DOMAIN campaigns, m \in MetricsInputs,
       f \in OptimizeFailInputs :
        LET out == optimize_campaign(campaigns, id, m, f)
        IN  /\ f = "none" => out.error = NoError
            /\ out.error = NoError =>
                   /\ DOMAIN out.campaigns = DOMAIN campaigns
                   /\ out.campaigns[id].performance = m
                   /\ out.campaigns[id].id = campaigns[id].id
                   /\ out.campaigns[id].status = campaigns[id].status
                   /\ out.campaigns[id].platform = campaigns[id].platform
                   /\ out.campaigns[id].config = campaigns[id].config
                   /\ out.campaigns[id].start_time = campaigns[id].start_time
                   /\ out.campaigns[id].errors = campaigns[id].errors
                   /\ \A other \in DOMAIN campaigns \ {id} :
                          out.campaigns[other] = campaigns[other]

\* An optimize_campaign has succeeded on one of two campaigns: one has the
\* metrics and a scaling status, the other still has no performance.
C10_Witness ==
    /\ last.op = "optimize_campaign"
    /\ last.error = NoError
    /\ \E id \in DOMAIN campaigns :
           /\ campaigns[id].performance = {<<"clicks", 1>>}
           /\ campaigns[id].status \in Scaling
    /\ \E id \in DOMAIN campaigns : campaigns[id].performance = {}

\* C11: a successful scale_campaign(id, direction) sets the status of
\* campaign id to scaling_up for 'up' and scaling_down for 'down', calls no
\* bid optimizer (no collaborator at all), and changes nothing else: not the
\* other fields of the record, not the set of ids, not another record.
C11_ScaleFrame ==
    \A id \in DOMAIN campaigns, d \in DirectionInputs :
        LET out == scale_campaign(campaigns, id, d)
        IN  /\ d \in {"up", "down"} => out.error = NoError
            /\ out.error = NoError =>
                   /\ d = "up" => out.campaigns[id].status = "scaling_up"
                   /\ d = "down" => out.campaigns[id].status = "scaling_down"
                   /\ d \in {"up", "down"}
                   /\ out.calls = <<>>
                   /\ DOMAIN out.campaigns = DOMAIN campaigns
                   /\ out.campaigns[id].id = campaigns[id].id
                   /\ out.campaigns[id].performance =
                          campaigns[id].performance
                   /\ out.campaigns[id].config = campaigns[id].config
                   /\ out.campaigns[id].platform = campaigns[id].platform
                   /\ out.campaigns[id].start_time = campaigns[id].start_time
                   /\ out.campaigns[id].errors = campaigns[id].errors
                   /\ \A other \in DOMAIN campaigns \ {id} :
                          out.campaigns[other] = campaigns[other]

\* A scale_campaign has succeeded on an optimized campaign, which keeps its
\* metrics, beside a campaign that is still running.
C11_Witness ==
    /\ last.op = "scale_campaign"
    /\ last.error = NoError
    /\ \E id \in DOMAIN campaigns :
           /\ campaigns[id].status = "scaling_up"
           /\ campaigns[id].performance = {<<"clicks", 1>>}
    /\ \E id \in DOMAIN campaigns : campaigns[id].status = "running"

\* C12: get_campaign_status is a read-only lookup: for a key of the table it
\* returns the record stored under that key, for any other id it fails with
\* not-found, and either way the table is left as it was.
C12_StatusReadOnly ==
    /\ \A id \in IdInputs \cup DOMAIN campaigns \cup stopped :
           LET out == get_campaign_status(campaigns, id)
           IN  /\ out.campaigns = campaigns
               /\ out.calls = <<>>
               /\ id \in DOMAIN campaigns =>
                      out.error = NoError /\ out.ret = campaigns[id]
               /\ id \notin DOMAIN campaigns =>
                      out.error = NotFound(id) /\ out.ret = None
    /\ (last.op = "get_campaign_status" /\ last.error = NoError) =>
           \E id \in DOMAIN campaigns : campaigns[id] = last.ret

\* A get_campaign_status has returned the record of a campaign that was
\* scaled and optimized before, and the table still holds it.
C12_Witness ==
    /\ last.op = "get_campaign_status"
    /\ last.error = NoError
    /\ last.ret.status = "scaling_down"
    /\ last.ret.performance = {<<"clicks", 1>>}
    /\ last.ret.id \in DOMAIN campaigns
    /\ campaigns[last.ret.id] = last.ret

LogsError(out) == \E i \in 1..Len(out.log) : out.log[i].level = "error"

\* C13: whenever create_campaign, optimize_campaign, scale_campaign,
\* stop_campaign or get_campaign_status fails, the exception reaches the
\* caller and the method has written an error log line.
C13_FailuresLogged ==
    /\ \A platform \in PlatformInputs, config \in ConfigInputs,
          failAt \in CreateFailInputs :
           LET out == create_campaign(campaigns, clock, platform, config,
                                      failAt)
           IN  out.error # NoError => LogsError(out)
    /\ \A id \in IdInputs \cup DOMAIN campaigns \cup stopped :
           /\ \A m \in MetricsInputs, f \in OptimizeFailInputs :
                  LET out == optimize_campaign(campaigns, id, m, f)
                  IN  out.error # NoError => LogsError(out)
           /\ \A d \in DirectionInputs :
                  LET out == scale_campaign(campaigns, id, d)
                  IN  out.error # NoError => LogsError(out)
           /\ LET out == stop_campaign(campaigns, id)
              IN  out.error # NoError => LogsError(out)
           /\ LET out == get_campaign_status(campaigns, id)
              IN  out.error # NoError => LogsError(out)

\* Bound: the length of the call sequences searched for a way back to
\* running.
MaxSteps == 3

\* The tables one call can leave that is not stop_campaign(id): a call made
\* with id, a call made with another id, or a create_campaign.
AfterCall(table, id) ==
    {optimize_campaign(table, k, m, f).campaigns :
         k \in DOMAIN table, m \in MetricsInputs, f \in OptimizeFailInputs}
    \cup {scale_campaign(table, k, d).campaigns :
              k \in DOMAIN table, d \in DirectionInputs}
    \cup {get_campaign_status(table, k).campaigns : k \in DOMAIN table}
    \cup {stop_campaign(table, k).campaigns : k \in DOMAIN table \ {id}}
    \cup {create_campaign(table, clock, p, c, f).campaigns :
              p \in PlatformInputs, c \in ConfigInputs,
              f \in CreateFailInputs}

RECURSIVE ReportsRunningWithin(_, _, _)
ReportsRunningWithin(table, id, steps) ==
    \/ get_campaign_status(table, id).ret.status = "running"
    \/ /\ steps > 0
       /\ \E t \in AfterCall(table, id) :
              ReportsRunningWithin(t, id, steps - 1)

\* C14: for a campaign whose status is scaling_up or scaling_down there is a
\* sequence of calls (here of at most MaxSteps), none of them stopping it,
\* after which get_campaign_status reports it running.
C14_CanReturnToRunning ==
    \A id \in DOMAIN campaigns :
        campaigns[id].status \in Scaling =>
            ReportsRunningWithin(campaigns, id, MaxSteps)

\* C15: every successful create_campaign adds exactly one new key to the
\* table and leaves every record that was in the table as it was; it never
\* overwrites a live campaign.
C15_CreateAddsOneKey ==
    \A platform \in PlatformInputs, config \in ConfigInputs,
       failAt \in CreateFailInputs :
        LET out == create_campaign(campaigns, clock, platform, config, failAt)
        IN  out.error = NoError =>
                /\ out.ret \notin DOMAIN campaigns
                /\ DOMAIN out.campaigns = DOMAIN campaigns \cup {out.ret}
                /\ Cardinality(DOMAIN out.campaigns) =
                       Cardinality(DOMAIN campaigns) + 1
                /\ \A k \in DOMAIN campaigns :
                       out.campaigns[k] = campaigns[k]

\* C16: when optimize_campaign fails on a campaign of the table, because
\* analyze_campaign or adjust_bids raises, the exception reaches the caller,
\* the table (the campaign's performance included) is what it was, and
\* adjust_bids was not called if analyze_campaign raised.
C16_OptimizeNoPartialUpdate ==
    \A id \in DOMAIN campaigns, m \in MetricsInputs,
       f \in OptimizeFailInputs :
        LET out == optimize_campaign(campaigns, id, m, f)
        IN  /\ f # "none" => out.error = DownstreamError(f)
            /\ out.error # NoError =>
                   /\ out.campaigns = campaigns
                   /\ out.campaigns[id].performance =
                          campaigns[id].performance
            /\ f = "analyze_campaign" =>
                   "adjust_bids" \notin Range(out.calls)
            /\ f = "adjust_bids" => "adjust_bids" \in Range(out.calls)

\* An optimize_campaign has failed in adjust_bids on a manager whose
\* campaigns include one optimized before and one without performance.
C16_Witness ==
    /\ last.op = "optimize_campaign"
    /\ last.error = DownstreamError("adjust_bids")
    /\ \E id \in DOMAIN campaigns :
           campaigns[id].performance = {<<"clicks", 1>>}
    /\ \E id \in DOMAIN campaigns : campaigns[id].performance = {}

\* The part of a campaign id before "_camp_".
PlatformPrefix(campaign_id) == campaign_id[1]

\* C17: every key k of the table maps to a record whose id is k, whose
\* platform is the part of k before "_camp_", and whose status is running,
\* scaling_up or scaling_down.
C17_TableWellFormed ==
    \A k \in DOMAIN campaigns :
        /\ Len(k) = 3
        /\ k[2] = "_camp_"
        /\ campaigns[k].id = k
        /\ campaigns[k].platform = PlatformPrefix(k)
        /\ campaigns[k].status \in {"running", "scaling_up", "scaling_down"}

\* The table holds a facebook and a twitter campaign, one of them scaling,
\* after an id was issued twice.
C17_Witness ==
    /\ \E k \in DOMAIN campaigns :
           PlatformPrefix(k) = "facebook" /\ campaigns[k].status \in Scaling
    /\ \E k \in DOMAIN campaigns : PlatformPrefix(k) = "twitter"
    /\ \E i, j \in 1..Len(issued) : i # j /\ issued[i] = issued[j]

====
